---- MODULE Spec2Model ----
(***************************************************************************)
(* A model of the piece manager of bt-c (src/src/client.rs): the three     *)
(* piece collections, the pending-request list, the peer table, the        *)
(* backing file and the clock, with one action per public operation.       *)
(***************************************************************************)
EXTENDS Integers, Sequences, FiniteSets, TLC

\* ------------------------------------------------------------------ bounds
\* Largest number of bytes of torrent.pieces (one Piece is built per byte).
MaxPieces == 2
\* Largest number of blocks of a torrent (summed over its pieces).
MaxBlocks == 2
\* Largest number of clock advances in one behaviour.
MaxTicks == 1
\* Bencode inputs: payload bytes per byte string, items per list or dictionary,
\* characters per raw numeral.
MaxBytesLen == 2
MaxItems == 2
MaxNumeral == 3
\* Largest number of blocks of a Piece operated on directly.
MaxUnitBlocks == 3
\* Largest number of SHA-1 digests in the `pieces` string of a real metainfo.
MaxDigests == 2

\* --------------------------------------------------------- program constants
REQUEST_SIZE == 16384
max_pending_time == 300000
\* `as u16` of PieceManager::new.
U16 == 65536
\* Length in bytes of a SHA-1 digest (sha1 crate, Sha1::finalize).
SHA1_LEN == 20

\* ------------------------------------------------------------ input domains
PeerIds == {"p1", "p2"}
\* Bytes a caller may put in a bitfield: 0 (absent) and 1 (held).
BitBytes == {0, 1}
\* Payloads: "ok" stands for the true content of the addressed block, "bad" for
\* any other bytes.
DataVals == {"ok", "bad"}
\* Bytes of the metainfo's `pieces` string.
PieceBytes == {200}
\* Clock advances (ms): up to and just past the expiry threshold.
TickSteps == {max_pending_time, max_pending_time + 1}

NoData == "none"
NoBlock == [piece |-> -1]
NoPiece == [index |-> -1]
NoTime == -1
\* The codec is not at work.
NoCodec == [pc |-> "idle"]
\* No handshake is being exchanged.
NoHandshake == [pc |-> "idle"]
\* No Piece is operated on outside the manager.
NoUnit == [op |-> "idle"]

VARIABLES
    torrent,          \* the immutable Torrent descriptor
    peers,            \* peer id -> bitfield (one byte per piece)
    pending_blocks,   \* sequence of PendingRequest
    missing_pieces,   \* sequence of Piece
    ongoing_pieces,   \* sequence of Piece
    have_pieces,      \* sequence of Piece
    fd,               \* the backing file: the sequence of positional writes
    now,              \* the system clock (ms)
    crashed,          \* a panic has unwound the process
    lastOp,           \* history: the last operation and its arguments
    ret,              \* history: what the last next_request returned
    issued,           \* history: (piece, offset) -> time it was last returned by
                      \* next_request with no block_received since
    was_reset,        \* history: indices of the pieces a hash mismatch has reset
    pairs,            \* history: request/receive pairs done by the progress run
    codec,            \* the bencoding codec at work: its input, step and result
    hs,               \* the handshake codec at work: its input, step and result
    unit              \* one Piece operated on directly: before, call, after

vars == <<torrent, peers, pending_blocks, missing_pieces, ongoing_pieces,
          have_pieces, fd, now, crashed, lastOp, ret, issued, was_reset, pairs, codec, hs, unit>>

\* ----------------------------------------------------------------- helpers
Min(a, b) == IF a < b THEN a ELSE b

div_ceil(a, b) == (a + b - 1) \div b

\* Iterator::position: the first index whose element satisfies P, 0 for None.
Position(s, P(_)) ==
    IF \E i \in 1..Len(s) : P(s[i])
    THEN CHOOSE i \in 1..Len(s) : P(s[i]) /\ \A j \in 1..(i - 1) : ~P(s[j])
    ELSE 0

\* Vec::remove.
RemoveAt(s, i) == SubSeq(s, 1, i - 1) \o SubSeq(s, i + 1, Len(s))

\* u8::to_string: the decimal numeral of a byte, as (length, text).
u8_to_string(b) ==
    [len |-> IF b < 10 THEN 1 ELSE IF b < 100 THEN 2 ELSE 3, text |-> <<"dec", b>>]

\* Sha1 over the concatenated payloads: an ideal (collision-free) digest.
Sha1(datas) == <<"sha1", datas>>

\* hex::encode: two lowercase hex digits per digest byte.
HexEncode(digest) == [len |-> 2 * SHA1_LEN, text |-> <<"hex", digest>>]

\* String equality: same length and same characters.
StrEq(a, b) == a.len = b.len /\ a.text = b.text

\* --------------------------------------------------------------- Block, Piece
Missing == "Missing"
Pending == "Pending"
Retrieved == "Retrieved"

BlockNew(piece, offset, length) ==
    [piece |-> piece, offset |-> offset, length |-> length,
     status |-> Missing, data |-> NoData]

\* Blocks of a piece that is not the last one.
StdBlocks(t, i) ==
    [k \in 1..div_ceil(t.piece_length, REQUEST_SIZE) |->
        BlockNew(i, (k - 1) * REQUEST_SIZE, REQUEST_SIZE)]

\* Blocks of the last piece.
LastBlocks(t, i) ==
    LET last_length == t.total_size % t.piece_length
        num_blocks == div_ceil(last_length, REQUEST_SIZE)
        built == [k \in 1..num_blocks |->
                    BlockNew(i, (k - 1) * REQUEST_SIZE,
                             Min(REQUEST_SIZE, last_length - (k - 1) * REQUEST_SIZE))]
    IN  IF last_length % REQUEST_SIZE > 0 /\ num_blocks > 0
        THEN [built EXCEPT ![num_blocks].length = last_length % REQUEST_SIZE]
        ELSE built

\* One Piece per element of torrent.pieces (a byte vector); its expected hash is
\* that element's to_string().
initiate_pieces(t) ==
    [k \in 1..Len(t.pieces) |->
        [index |-> k - 1,
         blocks |-> IF k - 1 < Len(t.pieces) - 1 THEN StdBlocks(t, k - 1)
                    ELSE LastBlocks(t, k - 1),
         hash_value |-> u8_to_string(t.pieces[k])]]

total_pieces == Len(torrent.pieces) % U16

PieceReset(p) ==
    [p EXCEPT !.blocks = [k \in 1..Len(p.blocks) |-> [p.blocks[k] EXCEPT !.status = Missing]]]

IsMissingBlock(b) == b.status = Missing

\* A next_request that takes the last Missing block instead of the first.
PieceNextRequest_last(p) ==
    LET n == Len(p.blocks)
        Rev == [k \in 1..n |-> p.blocks[n + 1 - k]]
        r == Position(Rev, IsMissingBlock)
        idx == IF r = 0 THEN 0 ELSE n + 1 - r
    IN  IF idx # 0
        THEN [piece |-> [p EXCEPT !.blocks[idx].status = Pending],
              block |-> [p.blocks[idx] EXCEPT !.status = Pending]]
        ELSE [piece |-> p, block |-> NoBlock]

\* Piece::next_request: <<piece afterwards, block returned or NoBlock>>.
PieceNextRequest(p) ==
    LET idx == Position(p.blocks, IsMissingBlock)
    IN  IF idx # 0
        THEN [piece |-> [p EXCEPT !.blocks[idx].status = Pending],
              block |-> [p.blocks[idx] EXCEPT !.status = Pending]]
        ELSE [piece |-> p, block |-> NoBlock]

\* A block_received that marks the block Retrieved and drops the payload.
PieceBlockReceived_no_data(p, offset, data) ==
    LET AtOffset(b) == b.offset = offset
        idx == Position(p.blocks, AtOffset)
    IN  IF idx # 0
        THEN [p EXCEPT !.blocks[idx].status = Retrieved]
        ELSE p

\* Piece::block_received.
PieceBlockReceived(p, offset, data) ==
    LET AtOffset(b) == b.offset = offset
        idx == Position(p.blocks, AtOffset)
    IN  IF idx # 0
        THEN [p EXCEPT !.blocks[idx].status = Retrieved, !.blocks[idx].data = data]
        ELSE p

is_complete(p) == \A k \in 1..Len(p.blocks) : p.blocks[k].status = Retrieved

\* A check that accepts every piece whose blocks all hold data.
is_hash_matching_any(p) ==
    \A k \in 1..Len(p.blocks) : p.blocks[k].data # NoData

is_hash_matching(p) ==
    /\ \A k \in 1..Len(p.blocks) : p.blocks[k].data # NoData
    /\ StrEq(p.hash_value, HexEncode(Sha1([k \in 1..Len(p.blocks) |-> p.blocks[k].data])))

\* ------------------------------------------------------------ PieceManager
complete == Len(have_pieces) = total_pieces

bytes_downloaded == Len(have_pieces) * torrent.piece_length

Key(b) == <<b.piece, b.offset>>

HasPeer(peer_id) == peer_id \in DOMAIN peers

\* Vec::get on a bitfield: the byte, or -1 for None.
BitGet(bitfield, index) == IF index + 1 \in 1..Len(bitfield) THEN bitfield[index + 1] ELSE -1

\* PieceManager::expired_requests: <<pending_blocks afterwards, block or NoBlock>>.
expired_requests(peer_id) ==
    LET Expired(r) ==
            /\ HasPeer(peer_id)
            /\ BitGet(peers[peer_id], r.block.piece) > 0
            /\ r.added + max_pending_time < now
        pos == Position(pending_blocks, Expired)
    IN  IF pos # 0
        THEN [pending |-> [pending_blocks EXCEPT ![pos].added = now],
              block |-> pending_blocks[pos].block]
        ELSE [pending |-> pending_blocks, block |-> NoBlock]

\* PieceManager::next_ongoing.
next_ongoing(peer_id) ==
    LET Usable(p) ==
            /\ HasPeer(peer_id)
            /\ BitGet(peers[peer_id], p.index) > 0
            /\ PieceNextRequest(p).block # NoBlock
        pos == Position(ongoing_pieces, Usable)
    IN  IF pos # 0
        THEN LET r == PieceNextRequest(ongoing_pieces[pos])
             IN  [ongoing |-> [ongoing_pieces EXCEPT ![pos] = r.piece],
                  pending |-> Append(pending_blocks, [block |-> r.block, added |-> now]),
                  block |-> r.block]
        ELSE [ongoing |-> ongoing_pieces, pending |-> pending_blocks, block |-> NoBlock]

\* The pieces of missing_pieces that get_rarest_piece counts for peer_id: those
\* whose bitfield byte has a non-zero bitwise complement (`!byte == 0` skips).
Counted(peer_id) ==
    {k \in 1..Len(missing_pieces) :
        255 - peers[peer_id][missing_pieces[k].index + 1] # 0}

\* Number of registered peers whose bitfield byte for the piece is > 0.
PeerCount(index) == Cardinality({q \in DOMAIN peers : peers[q][index + 1] > 0})

\* get_rarest_piece indexes bitfields without a bounds check.
RarestPanics(peer_id) ==
    \E k \in 1..Len(missing_pieces) :
        LET i == missing_pieces[k].index
        IN  \/ i >= Len(peers[peer_id])
            \/ /\ 255 - peers[peer_id][i + 1] # 0
               /\ \E q \in DOMAIN peers : i >= Len(peers[q])

\* A mutant of TakeMissing: the piece is pushed to ongoing_pieces and left in
\* missing_pieces.
TakeMissing_keep(k) ==
    [panic |-> FALSE, piece |-> missing_pieces[k],
     missing |-> missing_pieces,
     ongoing |-> Append(ongoing_pieces, missing_pieces[k])]

\* The end of get_rarest_piece: the piece at position k leaves missing_pieces, a
\* clone of it is pushed to ongoing_pieces and the piece is returned.
TakeMissing(k) ==
    [panic |-> FALSE, piece |-> missing_pieces[k],
     missing |-> RemoveAt(missing_pieces, k),
     ongoing |-> Append(ongoing_pieces, missing_pieces[k])]

\* PieceManager::get_rarest_piece: the set of possible outcomes. min_by_key runs
\* over a HashMap, whose iteration order is unspecified: any piece of minimum
\* count may come first.
get_rarest_piece(peer_id) ==
    IF ~HasPeer(peer_id)
    THEN {[panic |-> FALSE, piece |-> NoPiece, missing |-> missing_pieces, ongoing |-> ongoing_pieces]}
    ELSE IF RarestPanics(peer_id)
    THEN {[panic |-> TRUE, piece |-> NoPiece, missing |-> missing_pieces, ongoing |-> ongoing_pieces]}
    ELSE IF Counted(peer_id) = {}
    THEN {[panic |-> FALSE, piece |-> NoPiece, missing |-> missing_pieces, ongoing |-> ongoing_pieces]}
    ELSE {TakeMissing(k) :
            k \in {c \in Counted(peer_id) :
                    \A d \in Counted(peer_id) :
                        PeerCount(missing_pieces[c].index) <= PeerCount(missing_pieces[d].index)}}

\* PieceManager::write_piece: the possible results. A block without data fails before the write; write_all_at itself may
\* succeed or fail.
write_piece(blocks) ==
    IF \E k \in 1..Len(blocks) : blocks[k].data = NoData
    THEN {[ok |-> FALSE, buffer |-> <<>>]}
    ELSE {[ok |-> TRUE, buffer |-> [k \in 1..Len(blocks) |-> blocks[k].data]],
          [ok |-> FALSE, buffer |-> <<>>]}

\* A mutant of remove_pending: the entry is left in place.
remove_pending_not(piece_index, block_offset) == pending_blocks

\* The start of block_received: the first pending entry for (piece, offset), if
\* any, is removed.
remove_pending(piece_index, block_offset) ==
    LET Match(r) == r.block.piece = piece_index /\ r.block.offset = block_offset
        ppos == Position(pending_blocks, Match)
    IN  IF ppos # 0 THEN RemoveAt(pending_blocks, ppos) ELSE pending_blocks

\* A mutant of block_received: a complete piece is written before its hash is
\* verified.
block_received_write_first(piece_index, block_offset, data) ==
    LET pend == remove_pending(piece_index, block_offset)
        IsIndex(p) == p.index = piece_index
        pos == Position(ongoing_pieces, IsIndex)
        same == [pending |-> pend, ongoing |-> ongoing_pieces,
                 have |-> have_pieces, file |-> fd, verdict |-> "discard"]
    IN  IF pos = 0
        THEN {same}
        ELSE LET rest == RemoveAt(ongoing_pieces, pos)
                 piece == PieceBlockReceived(ongoing_pieces[pos], block_offset, data)
                 written == Append(fd, [offset |-> piece.index * torrent.piece_length,
                                        buffer |-> [k \in 1..Len(piece.blocks) |->
                                                        piece.blocks[k].data]])
             IN  IF ~is_complete(piece)
                 THEN {[same EXCEPT !.ongoing = Append(rest, piece), !.verdict = "partial"]}
                 ELSE IF ~is_hash_matching(piece)
                 THEN {[same EXCEPT !.ongoing = Append(rest, PieceReset(piece)),
                                   !.file = written, !.verdict = "corrupt"]}
                 ELSE {[same EXCEPT !.ongoing = rest, !.verdict = "written",
                                   !.have = Append(have_pieces, piece),
                                   !.file = written]}

\* A mutant of block_received: a complete piece is written and moved to
\* have_pieces without its hash being verified.
block_received_unverified(piece_index, block_offset, data) ==
    LET pend == remove_pending(piece_index, block_offset)
        IsIndex(p) == p.index = piece_index
        pos == Position(ongoing_pieces, IsIndex)
        same == [pending |-> pend, ongoing |-> ongoing_pieces,
                 have |-> have_pieces, file |-> fd, verdict |-> "discard"]
    IN  IF pos = 0
        THEN {same}
        ELSE LET rest == RemoveAt(ongoing_pieces, pos)
                 piece == PieceBlockReceived(ongoing_pieces[pos], block_offset, data)
             IN  IF ~is_complete(piece)
                 THEN {[same EXCEPT !.ongoing = Append(rest, piece), !.verdict = "partial"]}
                 ELSE {[same EXCEPT
                          !.ongoing = rest,
                          !.verdict = "written",
                          !.have = Append(have_pieces, piece),
                          !.file = Append(fd,
                              [offset |-> piece.index * torrent.piece_length,
                               buffer |-> [k \in 1..Len(piece.blocks) |->
                                              piece.blocks[k].data]])]}

\* PieceManager::block_received: the possible outcomes, each the fields it leaves
\* behind (one outcome, except where the write may fail). peer_id is not read.
\* The arguments are drawn below 2^32 (the wire format's range), where `as u32`
\* is the identity.
block_received(piece_index, block_offset, data) ==
    LET pend == remove_pending(piece_index, block_offset)
        index == piece_index
        IsIndex(p) == p.index = index
        pos == Position(ongoing_pieces, IsIndex)
        same == [pending |-> pend, ongoing |-> ongoing_pieces,
                 have |-> have_pieces, file |-> fd, verdict |-> "discard"]
    IN  IF pos = 0
        THEN {same}
        ELSE LET rest == RemoveAt(ongoing_pieces, pos)
                 piece == PieceBlockReceived(ongoing_pieces[pos], block_offset, data)
             IN  IF ~is_complete(piece)
                 THEN {[same EXCEPT !.ongoing = Append(rest, piece), !.verdict = "partial"]}
                 ELSE IF ~is_hash_matching(piece)
                 THEN {[same EXCEPT !.ongoing = Append(rest, PieceReset(piece)),
                                   !.verdict = "corrupt"]}
                 ELSE {IF ~w.ok
                       THEN [same EXCEPT !.ongoing = rest, !.verdict = "write failed"]
                       ELSE [same EXCEPT
                               !.ongoing = rest,
                               !.verdict = "written",
                               !.have = Append(have_pieces, piece),
                               !.file = Append(fd,
                                   [offset |-> piece.index * torrent.piece_length,
                                    buffer |-> w.buffer])] :
                        w \in write_piece(piece.blocks)}

\* PieceManager::next_request: the set of possible outcomes (one, except where
\* get_rarest_piece has several).
next_request(peer_id) ==
    LET e == expired_requests(peer_id)
        o == next_ongoing(peer_id)
    IN  IF e.block # NoBlock
        THEN {[panic |-> FALSE, block |-> e.block, pending |-> e.pending,
               missing |-> missing_pieces, ongoing |-> ongoing_pieces]}
        ELSE IF o.block # NoBlock
        THEN {[panic |-> FALSE, block |-> o.block, pending |-> o.pending,
               missing |-> missing_pieces, ongoing |-> o.ongoing]}
        ELSE {[panic |-> r.panic,
               block |-> IF r.piece = NoPiece THEN NoBlock
                         ELSE PieceNextRequest(r.piece).block,
               pending |-> pending_blocks,
               missing |-> r.missing, ongoing |-> r.ongoing] :
                r \in get_rarest_piece(peer_id)}

\* PieceManager::update_peer: the peer table afterwards.
update_peer(peer_id, index) ==
    IF HasPeer(peer_id) /\ index + 1 \in 1..Len(peers[peer_id])
    THEN [peers EXCEPT ![peer_id][index + 1] = 1]
    ELSE peers

\* PieceManager::delete_peer.
delete_peer(peer_id) == [q \in DOMAIN peers \ {peer_id} |-> peers[q]]

\* PieceManager::add_peer (HashMap::insert).
add_peer(peer_id, bitfield) ==
    [q \in DOMAIN peers \cup {peer_id} |-> IF q = peer_id THEN bitfield ELSE peers[q]]

IssuedAt(k) == IF k \in DOMAIN issued THEN issued[k] ELSE NoTime

\* -------------------------------------------------------------------- Init
Op(op, peer) == [op |-> op, peer |-> peer]

PieceLengths == {3, 2 * REQUEST_SIZE}

TotalSizes(n, pl) == {n * pl, n * pl - 1}

PieceStrings(n) == [1..n -> PieceBytes]

NumBlocks(ps) ==
    LET Sum[k \in 0..Len(ps)] == IF k = 0 THEN 0 ELSE Sum[k - 1] + Len(ps[k].blocks)
    IN  Sum[Len(ps)]

\* The torrents a behaviour may start from.
Torrents ==
    {t \in UNION {[piece_length : {pl}, total_size : TotalSizes(n, pl), pieces : PieceStrings(n)] :
                    n \in 1..MaxPieces, pl \in PieceLengths} :
        NumBlocks(initiate_pieces(t)) <= MaxBlocks}

InitWith(t, ps) ==
    /\ torrent = t
    /\ peers = ps
    /\ pending_blocks = <<>>
    /\ missing_pieces = initiate_pieces(torrent)
    /\ ongoing_pieces = <<>>
    /\ have_pieces = <<>>
    /\ fd = <<>>
    /\ now = 0
    /\ crashed = FALSE
    /\ lastOp = Op("new", "")
    /\ ret = NoBlock
    /\ issued = <<>>
    /\ was_reset = {}
    /\ pairs = 0

\* PieceManager::new on one of the torrents: no peer is registered.
Init == codec = NoCodec /\ hs = NoHandshake /\ unit = NoUnit /\ \E t \in Torrents : InitWith(t, <<>>)

\* ----------------------------------------------------------------- actions
NumPieces == Len(torrent.pieces)

Bitfields == [1..NumPieces -> BitBytes]

AddPeer(peer_id, bitfield) ==
    /\ ~crashed
    /\ peers' = add_peer(peer_id, bitfield)
    /\ lastOp' = Op("add_peer", "")
    /\ UNCHANGED <<torrent, pending_blocks, missing_pieces, ongoing_pieces,
                   have_pieces, fd, now, crashed, ret, issued, was_reset, pairs, codec, hs, unit>>

UpdatePeer(peer_id, index) ==
    /\ ~crashed
    /\ peers' = update_peer(peer_id, index)
    /\ lastOp' = Op("update_peer", "")
    /\ UNCHANGED <<torrent, pending_blocks, missing_pieces, ongoing_pieces,
                   have_pieces, fd, now, crashed, ret, issued, was_reset, pairs, codec, hs, unit>>

DeletePeer(peer_id) ==
    /\ ~crashed
    /\ peers' = delete_peer(peer_id)
    /\ lastOp' = Op("delete_peer", "")
    /\ UNCHANGED <<torrent, pending_blocks, missing_pieces, ongoing_pieces,
                   have_pieces, fd, now, crashed, ret, issued, was_reset, pairs, codec, hs, unit>>

NextRequest(peer_id) ==
    /\ ~crashed
    /\ \E r \in next_request(peer_id) :
        /\ crashed' = r.panic
        /\ ret' = r.block
        /\ pending_blocks' = r.pending
        /\ missing_pieces' = r.missing
        /\ ongoing_pieces' = r.ongoing
        /\ issued' = IF r.block = NoBlock THEN issued
                     ELSE [k \in DOMAIN issued \cup {Key(r.block)} |->
                            IF k = Key(r.block) THEN now ELSE issued[k]]
        /\ lastOp' = Op("next_request", peer_id)
    /\ UNCHANGED <<torrent, peers, have_pieces, fd, now, was_reset, pairs, codec, hs, unit>>

Deliver(piece_index, block_offset, data) ==
    /\ ~crashed
    /\ \E r \in block_received(piece_index, block_offset, data) :
        /\ pending_blocks' = r.pending
        /\ ongoing_pieces' = r.ongoing
        /\ have_pieces' = r.have
        /\ fd' = r.file
        /\ was_reset' = IF r.verdict = "corrupt" THEN was_reset \cup {piece_index}
                         ELSE was_reset
    /\ issued' = [k \in DOMAIN issued \ {<<piece_index, block_offset>>} |-> issued[k]]
    /\ lastOp' = Op("block_received", "")
    /\ UNCHANGED <<torrent, peers, missing_pieces, now, crashed, ret, codec, hs, unit>>

BlockReceived(piece_index, block_offset, data) ==
    /\ Deliver(piece_index, block_offset, data)
    /\ UNCHANGED pairs

Tick(d) ==
    /\ ~crashed
    /\ now + d <= MaxTicks * (max_pending_time + 1)
    /\ now' = now + d
    /\ lastOp' = Op("tick", "")
    /\ UNCHANGED <<torrent, peers, pending_blocks, missing_pieces, ongoing_pieces,
                   have_pieces, fd, crashed, ret, issued, was_reset, pairs, codec, hs, unit>>

Offsets == {0, REQUEST_SIZE}

Next ==
    \/ \E p \in PeerIds : \E bf \in Bitfields : AddPeer(p, bf)
    \/ \E p \in PeerIds : \E i \in 0..NumPieces : UpdatePeer(p, i)
    \/ \E p \in PeerIds : DeletePeer(p)
    \/ \E p \in PeerIds : NextRequest(p)
    \/ \E i \in 0..(NumPieces - 1) : \E off \in Offsets : \E d \in DataVals :
         BlockReceived(i, off, d)
    \/ \E d \in TickSteps : Tick(d)

Spec == Init /\ [][Next]_vars

\* ------------------------------------------------------- the progress run
\* One registered peer whose bitfield holds every piece alternates next_request
\* with block_received of the block it got, delivering the block's true bytes.
ProgressPeer == "p1"

ProgressTorrents ==
    UNION {[piece_length : {pl}, total_size : TotalSizes(n, pl), pieces : PieceStrings(n)] :
            n \in 1..(MaxPieces + 1), pl \in PieceLengths \cup {REQUEST_SIZE + 1}}

\* The number of blocks of the torrent: 2^14-byte blocks per piece, the final
\* piece holding total_size mod piece_length bytes, or piece_length when that
\* is zero.
ExpectedBlocks(t) ==
    LET rem == t.total_size % t.piece_length
        final == IF rem = 0 THEN t.piece_length ELSE rem
    IN  (Len(t.pieces) - 1) * div_ceil(t.piece_length, REQUEST_SIZE)
            + div_ceil(final, REQUEST_SIZE)

InitProgress ==
    /\ codec = NoCodec
    /\ hs = NoHandshake
    /\ unit = NoUnit
    /\ \E t \in ProgressTorrents :
        InitWith(t, [p \in {ProgressPeer} |-> [k \in 1..Len(t.pieces) |-> 1]])

ProgressRequest ==
    /\ lastOp.op \in {"new", "block_received"}
    /\ pairs < ExpectedBlocks(torrent)
    /\ NextRequest(ProgressPeer)

ProgressReceive ==
    /\ lastOp.op = "next_request"
    /\ ret # NoBlock
    /\ Deliver(ret.piece, ret.offset, "ok")
    /\ pairs' = pairs + 1

NextProgress == ProgressRequest \/ ProgressReceive

SpecProgress == InitProgress /\ [][NextProgress]_vars

\* ------------------------------------------------------- a real metainfo
\* build_torrent copies the info dictionary's `pieces` string as it is: one
\* 20-byte SHA-1 digest per piece of the file, so 20 * n bytes for n pieces.
DigestTorrents ==
    UNION {[piece_length : {3}, total_size : TotalSizes(n, 3),
            pieces : PieceStrings(SHA1_LEN * n)] : n \in 1..MaxDigests}

InitDigests ==
    /\ codec = NoCodec
    /\ hs = NoHandshake
    /\ unit = NoUnit
    /\ \E t \in DigestTorrents :
        InitWith(t, [p \in {ProgressPeer} |-> [k \in 1..Len(t.pieces) |-> 1]])

\* The progress run on such a torrent.
SpecDigests == InitDigests /\ [][NextProgress]_vars

\* ------------------------------------------------- bitfields of any length
\* add_peer stores whatever bitfield it is given: here peers also register
\* bitfields shorter than the number of pieces.
ShortBitfields == UNION {[1..n -> BitBytes] : n \in 0..(NumPieces - 1)}

NextShort ==
    \/ \E p \in PeerIds : \E bf \in ShortBitfields \cup Bitfields : AddPeer(p, bf)
    \/ \E p \in PeerIds : NextRequest(p)
    \/ \E i \in 0..(NumPieces - 1) : \E off \in Offsets : \E d \in DataVals :
         BlockReceived(i, off, d)

SpecShort == Init /\ [][NextShort]_vars

\* ------------------------------------------------- three peers, three pieces
\* A fresh manager over three pieces with three registered peers holding
\* pieces {0,1}, {1,2} and {0,1,2}.
RarestPeers == [p \in {"p1", "p2", "p3"} |->
                  IF p = "p1" THEN <<1, 1, 0>>
                  ELSE IF p = "p2" THEN <<0, 1, 1>>
                  ELSE <<1, 1, 1>>]

RarestTorrents ==
    [piece_length : {3}, total_size : TotalSizes(3, 3), pieces : PieceStrings(3)]

InitRarest == codec = NoCodec /\ hs = NoHandshake /\ unit = NoUnit /\ \E t \in RarestTorrents : InitWith(t, RarestPeers)

NextRarest ==
    \/ \E p \in DOMAIN RarestPeers : NextRequest(p)
    \/ \E i \in 0..(NumPieces - 1) : \E off \in Offsets : \E d \in DataVals :
         BlockReceived(i, off, d)

SpecRarest == InitRarest /\ [][NextRarest]_vars

\* ------------------------------------------------------------------ bencoding
\* Bytes are numbers 0..255; byte strings are sequences of them.
LIST_INDICATOR == 108
INT_INDICATOR == 105
DICT_INDICATOR == 100
END_BYTE == 101
COLON == 58
MINUS == 45
PLUS == 43
ZERO == 48

\* BYTES_INDICATOR: b'0'..=b'9'.
IsDigit(b) == b >= ZERO /\ b <= ZERO + 9

\* The variants of enum Bencode. A Dict holds a BTreeMap: its entries in
\* strictly ascending key order.
BInt(n) == [tag |-> "Int", int |-> n]
BBytes(b) == [tag |-> "Bytes", bytes |-> b]
BList(items) == [tag |-> "List", items |-> items]
BDict(map) == [tag |-> "Dict", map |-> map]

NoValue == [tag |-> "none"]
Err == [ok |-> FALSE, value |-> NoValue, rest |-> <<>>]
Ok(v, rest) == [ok |-> TRUE, value |-> v, rest |-> rest]

\* input[from..] of a slice (from is a 0-based index).
SliceFrom(input, from) == SubSeq(input, from + 1, Len(input))

\* Ord for Vec<u8>: lexicographic order.
LexLess(a, b) ==
    \E i \in 1..(Len(a) + 1) :
        /\ \A j \in 1..(i - 1) : j <= Len(b) /\ a[j] = b[j]
        /\ i <= Len(b)
        /\ (i <= Len(a) => a[i] < b[i])

\* BTreeMap::insert: the value of an existing key is replaced, a new key is
\* placed at its position in key order.
RECURSIVE MapInsert(_, _, _)
MapInsert(map, key, value) ==
    IF map = <<>> THEN <<[key |-> key, value |-> value]>>
    ELSE IF map[1].key = key THEN <<[key |-> key, value |-> value]>> \o Tail(map)
    ELSE IF LexLess(key, map[1].key) THEN <<[key |-> key, value |-> value]>> \o map
    ELSE <<map[1]>> \o MapInsert(Tail(map), key, value)

\* to_string of a non-negative integer: its decimal digits.
RECURSIVE Digits(_)
Digits(n) == IF n < 10 THEN <<ZERO + n>> ELSE Digits(n \div 10) \o <<ZERO + (n % 10)>>

\* Display for i64 (format!("{}", i)).
IntToString(n) == IF n < 0 THEN <<MINUS>> \o Digits(0 - n) ELSE Digits(n)

\* encoder::encode.
RECURSIVE encode(_)
RECURSIVE EncodeItems(_)
RECURSIVE EncodeEntries(_)
EncodeItems(items) ==
    IF items = <<>> THEN <<>> ELSE encode(items[1]) \o EncodeItems(Tail(items))

EncodeEntries(map) ==
    IF map = <<>> THEN <<>>
    ELSE encode(BBytes(map[1].key)) \o encode(map[1].value) \o EncodeEntries(Tail(map))

encode(data) ==
    IF data.tag = "Int" THEN <<INT_INDICATOR>> \o IntToString(data.int) \o <<END_BYTE>>
    ELSE IF data.tag = "Bytes" THEN Digits(Len(data.bytes)) \o <<COLON>> \o data.bytes
    ELSE IF data.tag = "List" THEN <<LIST_INDICATOR>> \o EncodeItems(data.items) \o <<END_BYTE>>
    ELSE <<DICT_INDICATOR>> \o EncodeEntries(data.map) \o <<END_BYTE>>

\* String::from_utf8_lossy: a byte that is not valid UTF-8 becomes U+FFFD
\* (EF BF BD). The inputs' only byte above 127 is 255, invalid wherever it
\* stands.
RECURSIVE Utf8Lossy(_)
Utf8Lossy(input) ==
    IF input = <<>> THEN <<>>
    ELSE (IF input[1] > 127 THEN <<239, 191, 189>> ELSE <<input[1]>>) \o Utf8Lossy(Tail(input))

\* The value of a string of decimal digits.
RECURSIVE DigitsValue(_)
DigitsValue(s) ==
    IF s = <<>> THEN 0 ELSE DigitsValue(SubSeq(s, 1, Len(s) - 1)) * 10 + (s[Len(s)] - ZERO)

AllDigits(s) == s # <<>> /\ \A k \in 1..Len(s) : IsDigit(s[k])

\* str::parse::<i64>: an optional sign, then one or more digits. (Numerals are
\* short: the overflow error is out of reach.)
ParseI64(s) ==
    IF s # <<>> /\ s[1] = MINUS
    THEN (IF AllDigits(Tail(s)) THEN [ok |-> TRUE, n |-> 0 - DigitsValue(Tail(s))]
          ELSE [ok |-> FALSE, n |-> 0])
    ELSE IF s # <<>> /\ s[1] = PLUS
    THEN (IF AllDigits(Tail(s)) THEN [ok |-> TRUE, n |-> DigitsValue(Tail(s))]
          ELSE [ok |-> FALSE, n |-> 0])
    ELSE IF AllDigits(s) THEN [ok |-> TRUE, n |-> DigitsValue(s)]
    ELSE [ok |-> FALSE, n |-> 0]

\* str::parse::<usize>: an optional '+', then one or more digits.
ParseUsize(s) ==
    IF s # <<>> /\ s[1] = PLUS
    THEN (IF AllDigits(Tail(s)) THEN [ok |-> TRUE, n |-> DigitsValue(Tail(s))]
          ELSE [ok |-> FALSE, n |-> 0])
    ELSE IF AllDigits(s) THEN [ok |-> TRUE, n |-> DigitsValue(s)]
    ELSE [ok |-> FALSE, n |-> 0]

\* The 0-based index of the first occurrence of byte b, or -1.
Find(s, b) ==
    IF \E i \in 1..Len(s) : s[i] = b
    THEN (CHOOSE i \in 1..Len(s) : s[i] = b /\ \A j \in 1..(i - 1) : s[j] # b) - 1
    ELSE -1

StartsWith(s, prefix) == Len(s) >= Len(prefix) /\ SubSeq(s, 1, Len(prefix)) = prefix

\* The leading-zero test of parse_int.
LeadingZero(num_str) ==
    \/ StartsWith(num_str, <<ZERO>>) /\ Len(num_str) > 2
    \/ StartsWith(num_str, <<MINUS, ZERO>>) /\ Len(num_str) > 2

\* decoder::parse_int, on the input after the 'i'.
parse_int(input) ==
    LET string == Utf8Lossy(input)
        end == Find(string, END_BYTE)
        num_str == SubSeq(string, 1, end)
        number == ParseI64(num_str)
    IN  IF end = -1 THEN Err
        ELSE IF LeadingZero(num_str) THEN Err
        ELSE IF ~number.ok THEN Err
        ELSE Ok(BInt(number.n), SliceFrom(input, end + 1))

\* A mutant of parse_bytes: the payload is taken from the colon on.
parse_bytes_at_colon(input) ==
    LET colon_pos == Find(input, COLON)
        length == ParseUsize(Utf8Lossy(SubSeq(input, 1, colon_pos)))
        start == colon_pos
        end == start + length.n
    IN  IF colon_pos = -1 THEN Err
        ELSE IF ~length.ok THEN Err
        ELSE IF Len(input) < end THEN Err
        ELSE Ok(BBytes(SubSeq(input, start + 1, end)), SliceFrom(input, end))

\* decoder::parse_bytes.
parse_bytes(input) ==
    LET colon_pos == Find(input, COLON)
        length == ParseUsize(Utf8Lossy(SubSeq(input, 1, colon_pos)))
        start == colon_pos + 1
        end == start + length.n
    IN  IF colon_pos = -1 THEN Err
        ELSE IF ~length.ok THEN Err
        ELSE IF Len(input) < end THEN Err
        ELSE Ok(BBytes(SubSeq(input, start + 1, end)), SliceFrom(input, end))

RECURSIVE decode(_)
RECURSIVE ListLoop(_, _)
RECURSIVE DictLoop(_, _)

\* The loop of decoder::parse_list, with the items read so far.
ListLoop(input, items) ==
    IF input = <<>> THEN Err
    ELSE IF input[1] = END_BYTE THEN Ok(BList(items), Tail(input))
    ELSE LET item == decode(input)
         IN  IF ~item.ok THEN Err ELSE ListLoop(item.rest, Append(items, item.value))

\* decoder::parse_list, on the input after the 'l'.
parse_list(input) == ListLoop(input, <<>>)

\* The loop of decoder::parse_dict, with the map built so far.
DictLoop(input, map) ==
    IF input = <<>> THEN Err
    ELSE IF input[1] = END_BYTE THEN Ok(BDict(map), Tail(input))
    ELSE LET key == parse_bytes(input)
         IN  IF ~key.ok THEN Err
             ELSE LET value == decode(key.rest)
                  IN  IF ~value.ok THEN Err
                      ELSE DictLoop(value.rest, MapInsert(map, key.value.bytes, value.value))

\* decoder::parse_dict, on the input after the 'd'.
parse_dict(input) == DictLoop(input, <<>>)

\* decoder::decode.
decode(input) ==
    IF input = <<>> THEN Err
    ELSE IF input[1] = INT_INDICATOR THEN parse_int(Tail(input))
    ELSE IF input[1] = LIST_INDICATOR THEN parse_list(Tail(input))
    ELSE IF input[1] = DICT_INDICATOR THEN parse_dict(Tail(input))
    ELSE IF IsDigit(input[1]) THEN parse_bytes(input)
    ELSE Err

\* ---------------------------------------------------------- the codec's inputs
SeqsUpTo(S, n) == UNION {[1..k -> S] : k \in 0..n}

\* Integers, payload bytes ('1', ':', 'e', 'i' and the non-UTF-8 byte 255) and
\* dictionary keys ("", "a", "ab", "b").
CodecInts == {0 - 10, 0 - 1, 0, 5, 12}
CodecBytes == {49, COLON, END_BYTE, INT_INDICATOR, 255}
CodecKeys == {<<>>, <<97>>, <<97, 98>>, <<98>>}

Ascending(keys) == \A k \in 1..(Len(keys) - 1) : LexLess(keys[k], keys[k + 1])

\* The dictionaries over CodecKeys whose values come from vals.
DictsOver(vals) ==
    UNION {{BDict([k \in 1..Len(keys) |-> [key |-> keys[k], value |-> vs[k]]]) :
                vs \in [1..Len(keys) -> vals]} :
            keys \in {ks \in SeqsUpTo(CodecKeys, MaxItems) : Ascending(ks)}}

Scalars == {BInt(n) : n \in CodecInts} \cup {BBytes(b) : b \in SeqsUpTo(CodecBytes, MaxBytesLen)}

FewScalars ==
    {BInt(0 - 10), BInt(0), BInt(12), BBytes(<<>>), BBytes(<<END_BYTE>>),
     BBytes(<<49, COLON>>), BBytes(<<255>>), BBytes(<<INT_INDICATOR, 49>>)}

Inner ==
    {BList(<<>>), BList(<<BInt(0 - 10)>>), BList(<<BBytes(<<END_BYTE>>)>>), BDict(<<>>),
     BDict(<<[key |-> <<97>>, value |-> BBytes(<<49, COLON>>)]>>)}

\* The well-formed values: scalars, lists and dictionaries of scalars, lists
\* and dictionaries of lists and dictionaries.
CodecValues ==
    Scalars
    \cup {BList(items) : items \in SeqsUpTo(FewScalars, MaxItems)}
    \cup DictsOver(FewScalars)
    \cup {BList(items) : items \in SeqsUpTo(Inner, MaxItems)}
    \cup DictsOver(Inner)

\* Raw dictionaries: the keys in any order, repeats included; the value of
\* the j-th entry is the integer j.
RawKeys == SeqsUpTo(CodecKeys, MaxItems)

RECURSIVE RawEntries(_, _)
RawEntries(keys, j) ==
    IF j > Len(keys) THEN <<>>
    ELSE encode(BBytes(keys[j])) \o encode(BInt(j)) \o RawEntries(keys, j + 1)

RawDict(keys) == <<DICT_INDICATOR>> \o RawEntries(keys, 1) \o <<END_BYTE>>

\* Raw integers: i, a numeral over '-', '0' and '3', e.
Numerals == SeqsUpTo({MINUS, ZERO, ZERO + 3}, MaxNumeral)

RawInt(numeral) == <<INT_INDICATOR>> \o numeral \o <<END_BYTE>>

CodecStarts ==
    {[pc |-> "value", origin |-> "value", source |-> <<>>, value |-> v,
      wire |-> <<>>, result |-> Err] : v \in CodecValues}
    \cup {[pc |-> "wire", origin |-> "dict", source |-> keys, value |-> NoValue,
           wire |-> RawDict(keys), result |-> Err] : keys \in RawKeys}
    \cup {[pc |-> "wire", origin |-> "int", source |-> numeral, value |-> NoValue,
           wire |-> RawInt(numeral), result |-> Err] : numeral \in Numerals}

\* No torrent is loaded while the codec runs.
NoTorrent == [piece_length |-> 1, total_size |-> 0, pieces |-> <<>>]

InitCodec == InitWith(NoTorrent, <<>>) /\ hs = NoHandshake /\ unit = NoUnit /\ codec \in CodecStarts

Encode ==
    /\ codec.pc = "value"
    /\ codec' = [codec EXCEPT !.pc = "wire", !.wire = encode(codec.value)]
    /\ UNCHANGED <<torrent, peers, pending_blocks, missing_pieces, ongoing_pieces,
                   have_pieces, fd, now, crashed, lastOp, ret, issued, was_reset, pairs,
                   hs, unit>>

Decode ==
    /\ codec.pc = "wire"
    /\ codec' = [codec EXCEPT !.pc = "done", !.result = decode(codec.wire)]
    /\ UNCHANGED <<torrent, peers, pending_blocks, missing_pieces, ongoing_pieces,
                   have_pieces, fd, now, crashed, lastOp, ret, issued, was_reset, pairs,
                   hs, unit>>

NextCodec == Encode \/ Decode

SpecCodec == InitCodec /\ [][NextCodec]_vars

\* ------------------------------------------------------------------ handshake
\* pstrlen + pstr + reserved + info_hash + peer_id.
HANDSHAKE_LENGTH == 49 + 19
PSTRLEN == 19
\* b"BitTorrent protocol".
PSTR == <<66, 105, 116, 84, 111, 114, 114, 101, 110, 116, 32,
          112, 114, 111, 116, 111, 99, 111, 108>>
RESERVED_LEN == 8
\* Length Handshake::new demands of info_hash and of peer_id.
ID_LEN == 20

HsErr == [ok |-> FALSE]

\* Handshake::new.
handshake_new(info_hash, peer_id) ==
    IF Len(info_hash) # ID_LEN THEN HsErr
    ELSE IF Len(peer_id) # ID_LEN THEN HsErr
    ELSE [ok |-> TRUE, info_hash |-> info_hash, peer_id |-> peer_id]

\* Handshake::encode.
handshake_encode(h) ==
    <<PSTRLEN>> \o PSTR \o [k \in 1..RESERVED_LEN |-> 0] \o h.info_hash \o h.peer_id

\* data[from..to] of a slice (0-based, to exclusive).
Slice(data, from, to) == SubSeq(data, from + 1, to)

\* A decode that reads the two fields right after pstr, as if the message had
\* no reserved bytes.
handshake_decode_unreserved(data) ==
    IF Len(data) # HANDSHAKE_LENGTH THEN HsErr
    ELSE IF data[1] # PSTRLEN THEN HsErr
    ELSE IF Slice(data, 1, 20) # PSTR THEN HsErr
    ELSE handshake_new(Slice(data, 20, 40), Slice(data, 40, 60))

\* Handshake::decode.
handshake_decode(data) ==
    IF Len(data) # HANDSHAKE_LENGTH THEN HsErr
    ELSE IF data[1] # PSTRLEN THEN HsErr
    ELSE IF Slice(data, 1, 20) # PSTR THEN HsErr
    ELSE handshake_new(Slice(data, 28, 48), Slice(data, 48, 68))

\* ------------------------------------------------------ the handshake's inputs
\* Byte values of the identifiers: 0, 0xAB and, per position, the position.
IdFills == {0, 171}

Ids(n) == {[k \in 1..n |-> c] : c \in IdFills} \cup {[k \in 1..n |-> k]}

\* Identifiers of the right length and one byte off it.
AnyIds == UNION {Ids(n) : n \in (ID_LEN - 1)..(ID_LEN + 1)}

\* Well-formed messages, from which the raw buffers are derived.
BaseWires ==
    {handshake_encode([info_hash |-> [k \in 1..ID_LEN |-> 171], peer_id |-> id]) :
        id \in Ids(ID_LEN)}

\* Raw buffers handed to decode: every proper prefix of a well-formed message,
\* the message with one byte appended, the message itself, the message with one
\* of its first 20 bytes or one reserved byte changed, and all-zero buffers.
RawBuffers ==
    UNION {{SubSeq(w, 1, n) : n \in 0..HANDSHAKE_LENGTH}
            \cup {w \o <<0>>}
            \cup {[w EXCEPT ![i] = (w[i] + 1) % 256] : i \in 1..28} : w \in BaseWires}
    \cup {[k \in 1..n |-> 0] : n \in {HANDSHAKE_LENGTH - 1, HANDSHAKE_LENGTH}}

HandshakeStarts ==
    {[pc |-> "fields", origin |-> "fields", info_hash |-> ih, peer_id |-> id,
      made |-> HsErr, wire |-> <<>>, result |-> HsErr] : ih \in AnyIds, id \in AnyIds}
    \cup {[pc |-> "wire", origin |-> "buffer", info_hash |-> <<>>, peer_id |-> <<>>,
           made |-> HsErr, wire |-> w, result |-> HsErr] : w \in RawBuffers}

InitHandshake ==
    /\ InitWith(NoTorrent, <<>>)
    /\ codec = NoCodec
    /\ unit = NoUnit
    /\ hs \in HandshakeStarts

HandshakeNew ==
    /\ hs.pc = "fields"
    /\ LET h == handshake_new(hs.info_hash, hs.peer_id)
       IN  hs' = [hs EXCEPT !.pc = IF h.ok THEN "made" ELSE "done", !.made = h]
    /\ UNCHANGED <<torrent, peers, pending_blocks, missing_pieces, ongoing_pieces,
                   have_pieces, fd, now, crashed, lastOp, ret, issued, was_reset, pairs,
                   codec, unit>>

HandshakeEncode ==
    /\ hs.pc = "made"
    /\ hs' = [hs EXCEPT !.pc = "wire", !.wire = handshake_encode(hs.made)]
    /\ UNCHANGED <<torrent, peers, pending_blocks, missing_pieces, ongoing_pieces,
                   have_pieces, fd, now, crashed, lastOp, ret, issued, was_reset, pairs,
                   codec, unit>>

HandshakeDecode ==
    /\ hs.pc = "wire"
    /\ hs' = [hs EXCEPT !.pc = "done", !.result = handshake_decode(hs.wire)]
    /\ UNCHANGED <<torrent, peers, pending_blocks, missing_pieces, ongoing_pieces,
                   have_pieces, fd, now, crashed, lastOp, ret, issued, was_reset, pairs,
                   codec, unit>>

NextHandshake == HandshakeNew \/ HandshakeEncode \/ HandshakeDecode

SpecHandshake == InitHandshake /\ [][NextHandshake]_vars

\* ------------------------------------------------------- one Piece on its own
\* Pieces as the manager can hold them: blocks at consecutive multiples of
\* REQUEST_SIZE, each in any status; a Retrieved block carries a payload, a
\* Missing or Pending one carries none or the payload of an earlier delivery.
UnitBlockStates ==
    {bs \in [status : {Missing, Pending, Retrieved}, data : DataVals \cup {NoData}] :
        bs.status = Retrieved => bs.data # NoData}

UnitPieces ==
    UNION {{[index |-> 0,
             blocks |-> [k \in 1..n |->
                            [piece |-> 0, offset |-> (k - 1) * REQUEST_SIZE,
                             length |-> REQUEST_SIZE,
                             status |-> f[k].status, data |-> f[k].data]],
             hash_value |-> u8_to_string(200)] : f \in [1..n -> UnitBlockStates]} :
           n \in 0..MaxUnitBlocks}

\* Offsets a caller may name: those of the blocks and one past the last.
UnitOffsets == {k * REQUEST_SIZE : k \in 0..MaxUnitBlocks}

UnitCall(op, before, after, offset, data, result) ==
    [op |-> op, before |-> before, after |-> after, offset |-> offset,
     data |-> data, ret |-> result]

InitPiece ==
    /\ InitWith(NoTorrent, <<>>)
    /\ codec = NoCodec
    /\ hs = NoHandshake
    /\ \E p \in UnitPieces : unit = UnitCall("new", p, p, 0, NoData, NoBlock)

UnitNextRequest ==
    /\ LET r == PieceNextRequest(unit.after)
       IN  unit' = UnitCall("next_request", unit.after, r.piece, 0, NoData, r.block)
    /\ UNCHANGED <<torrent, peers, pending_blocks, missing_pieces, ongoing_pieces,
                   have_pieces, fd, now, crashed, lastOp, ret, issued, was_reset, pairs,
                   codec, hs>>

UnitBlockReceived(offset, data) ==
    /\ unit' = UnitCall("block_received", unit.after,
                        PieceBlockReceived(unit.after, offset, data), offset, data, NoBlock)
    /\ UNCHANGED <<torrent, peers, pending_blocks, missing_pieces, ongoing_pieces,
                   have_pieces, fd, now, crashed, lastOp, ret, issued, was_reset, pairs,
                   codec, hs>>

UnitReset ==
    /\ unit' = UnitCall("reset", unit.after, PieceReset(unit.after), 0, NoData, NoBlock)
    /\ UNCHANGED <<torrent, peers, pending_blocks, missing_pieces, ongoing_pieces,
                   have_pieces, fd, now, crashed, lastOp, ret, issued, was_reset, pairs,
                   codec, hs>>

NextPiece ==
    \/ UnitNextRequest
    \/ \E off \in UnitOffsets : \E d \in DataVals : UnitBlockReceived(off, d)
    \/ UnitReset

SpecPiece == InitPiece /\ [][NextPiece]_vars

\* ------------------------------------------------------------------ claims
PieceIndices == 0..(NumPieces - 1)

IndexCount(pieces, i) == Cardinality({k \in 1..Len(pieces) : pieces[k].index = i})

\* A piece that was completed, failed verification and was reset: every block
\* is Missing again and still carries the delivered bytes.
IsResetPiece(p) ==
    /\ Len(p.blocks) > 0
    /\ \A k \in 1..Len(p.blocks) : p.blocks[k].status = Missing /\ p.blocks[k].data # NoData

C2_SchedulerProgress ==
    /\ (lastOp.op = "next_request" /\ pairs < ExpectedBlocks(torrent)) => ret # NoBlock
    /\ pairs = ExpectedBlocks(torrent) => complete
    /\ complete => pairs = ExpectedBlocks(torrent)

\* C3: every entry of pending_blocks refers to a block of a piece in
\* ongoing_pieces whose status there is Pending.
C3_PendingRefersToPending ==
    \A e \in 1..Len(pending_blocks) :
        \E k \in 1..Len(ongoing_pieces) :
            /\ ongoing_pieces[k].index = pending_blocks[e].block.piece
            /\ \E b \in 1..Len(ongoing_pieces[k].blocks) :
                /\ ongoing_pieces[k].blocks[b].offset = pending_blocks[e].block.offset
                /\ ongoing_pieces[k].blocks[b].status = Pending

\* C3 witness: a hash-mismatch reset has happened and a request is pending.
C3_Witness ==
    /\ lastOp.op = "block_received"
    /\ pending_blocks # <<>>
    /\ \E k \in 1..Len(ongoing_pieces) : IsResetPiece(ongoing_pieces[k])
    /\ C3_PendingRefersToPending

\* The blocks last returned by next_request more than max_pending_time ago, not
\* received since, of pieces that peer p's bitfield holds.
ExpiredHeld(p) ==
    {k \in DOMAIN issued :
        /\ issued[k] + max_pending_time < now
        /\ HasPeer(p)
        /\ BitGet(peers[p], k[1]) > 0}

\* C4: a block returned by next_request and not received since is not returned
\* again until more than max_pending_time has elapsed since it was returned.
C4_NotReturnedBeforeExpiry ==
    [][(lastOp'.op = "next_request" /\ ret' # NoBlock /\ IssuedAt(Key(ret')) # NoTime)
        => now > IssuedAt(Key(ret')) + max_pending_time]_vars

\* C5: a next_request by a registered peer that holds the piece of a block
\* returned more than max_pending_time ago and not received since returns such
\* an expired block and stamps its pending entry with the current time.
C5_ExpiredReturnedFirst ==
    [][\A p \in PeerIds :
        (lastOp'.op = "next_request" /\ lastOp'.peer = p /\ ExpiredHeld(p) # {})
        => /\ ret' # NoBlock
           /\ Key(ret') \in ExpiredHeld(p)
           /\ \E e \in 1..Len(pending_blocks') :
                /\ Key(pending_blocks'[e].block) = Key(ret')
                /\ pending_blocks'[e].added = now]_vars

\* C6: next_request(p) never returns a block of a piece that p's registered
\* bitfield does not mark as held.
C6_OnlyHeldPieces ==
    (lastOp.op = "next_request" /\ ret # NoBlock)
    => HasPeer(lastOp.peer) /\ BitGet(peers[lastOp.peer], ret.piece) > 0

\* C7: the piece next_request moves from missing to ongoing has the minimum
\* number of holders among the pieces considered, and the lowest index among
\* those of minimum count.
C7_RarestLowestIndex ==
    [][\A p \in PeerIds :
        (lastOp'.op = "next_request" /\ lastOp'.peer = p
            /\ Len(missing_pieces') < Len(missing_pieces))
        => LET chosen == ongoing_pieces'[Len(ongoing_pieces')].index
           IN  \A c \in Counted(p) :
                \/ PeerCount(chosen) < PeerCount(missing_pieces[c].index)
                \/ /\ PeerCount(chosen) = PeerCount(missing_pieces[c].index)
                   /\ chosen <= missing_pieces[c].index]_vars

\* The piece of index i in a collection, or NoPiece.
PieceAt(pieces, i) ==
    IF \E k \in 1..Len(pieces) : pieces[k].index = i
    THEN pieces[CHOOSE k \in 1..Len(pieces) : pieces[k].index = i]
    ELSE NoPiece

\* Delivering (i, off) completes piece i: it is ongoing, has a block at off and
\* every other block of it is Retrieved.
Completes(i, off) ==
    LET p == PieceAt(ongoing_pieces, i)
    IN  /\ p # NoPiece
        /\ \E b \in 1..Len(p.blocks) : p.blocks[b].offset = off
        /\ \A b \in 1..Len(p.blocks) :
            p.blocks[b].offset # off => p.blocks[b].status = Retrieved

\* The payloads piece i holds once d is delivered at off are its true content.
AllCorrect(i, off, d) ==
    LET p == PieceBlockReceived(PieceAt(ongoing_pieces, i), off, d)
    IN  \A b \in 1..Len(p.blocks) : p.blocks[b].data = "ok"

\* C8: a delivery that completes a piece with wrong bytes resets all its blocks
\* to Missing, adds nothing to have_pieces and writes nothing; once a piece was
\* reset, completing it with the correct bytes of a block requested again moves
\* it to have_pieces and writes it to the file.
C8_CorruptPieceRecovery ==
    [][\A i \in PieceIndices : \A off \in Offsets : \A d \in DataVals :
        (BlockReceived(i, off, d) /\ Completes(i, off))
        => IF ~AllCorrect(i, off, d)
           THEN /\ PieceAt(ongoing_pieces', i) # NoPiece
                /\ \A b \in 1..Len(PieceAt(ongoing_pieces', i).blocks) :
                     PieceAt(ongoing_pieces', i).blocks[b].status = Missing
                /\ have_pieces' = have_pieces
                /\ fd' = fd
           ELSE (i \in was_reset /\ <<i, off>> \in DOMAIN issued)
                => /\ PieceAt(have_pieces', i) # NoPiece
                   /\ Len(fd') = Len(fd) + 1
                   /\ fd'[Len(fd')].offset = i * torrent.piece_length]_vars

\* The block (i, off) was delivered before: it is Retrieved in an ongoing piece,
\* or its piece is in have_pieces.
AlreadyDelivered(i, off) ==
    \/ /\ PieceAt(ongoing_pieces, i) # NoPiece
       /\ \E b \in 1..Len(PieceAt(ongoing_pieces, i).blocks) :
            /\ PieceAt(ongoing_pieces, i).blocks[b].offset = off
            /\ PieceAt(ongoing_pieces, i).blocks[b].status = Retrieved
    \/ PieceAt(have_pieces, i) # NoPiece

PieceSet(pieces) == {pieces[k] : k \in 1..Len(pieces)}

\* C9: a second delivery of a block already delivered changes no block's data
\* or status, none of the three collections and not the file.
C9_DuplicateDiscarded ==
    [][\A i \in PieceIndices : \A off \in Offsets : \A d \in DataVals :
        (BlockReceived(i, off, d) /\ AlreadyDelivered(i, off))
        => /\ PieceSet(missing_pieces') = PieceSet(missing_pieces)
           /\ PieceSet(ongoing_pieces') = PieceSet(ongoing_pieces)
           /\ PieceSet(have_pieces') = PieceSet(have_pieces)
           /\ fd' = fd]_vars
\* The writes the file received at the offset of piece i.
WritesOf(i) == {a \in 1..Len(fd) : fd[a].offset = i * torrent.piece_length}

PieceData(p) == [b \in 1..Len(p.blocks) |-> p.blocks[b].data]

\* The last write the file received at the offset of piece i.
LastWriteOf(i) == fd[CHOOSE a \in WritesOf(i) : \A b \in WritesOf(i) : b <= a]

RECURSIVE SumLengths(_, _)
SumLengths(blocks, n) ==
    IF n = 0 THEN 0 ELSE SumLengths(blocks, n - 1) + blocks[n].length

\* The sum of the lengths of all blocks of the first n pieces.
RECURSIVE SumPieces(_, _)
SumPieces(ps, n) ==
    IF n = 0 THEN 0 ELSE SumPieces(ps, n - 1) + SumLengths(ps[n].blocks, Len(ps[n].blocks))

\* C13: the blocks of every piece start at offset 0 and are contiguous, every
\* block but the last of a piece is 2^14 bytes long and the last at most that,
\* the blocks of a non-final piece sum to piece_length and all blocks sum to
\* total_size.
C13_BlockPartition ==
    LET ps == initiate_pieces(torrent)
    IN  /\ \A k \in 1..Len(ps) : \A b \in 1..Len(ps[k].blocks) :
            /\ ps[k].blocks[b].offset = SumLengths(ps[k].blocks, b - 1)
            /\ ps[k].blocks[b].length >= 1
            /\ ps[k].blocks[b].length <= REQUEST_SIZE
            /\ b < Len(ps[k].blocks) => ps[k].blocks[b].length = REQUEST_SIZE
        /\ \A k \in 1..(Len(ps) - 1) :
            SumLengths(ps[k].blocks, Len(ps[k].blocks)) = torrent.piece_length
        /\ SumPieces(ps, Len(ps)) = torrent.total_size

\* C14: the blocks of the final piece cover total_size mod piece_length bytes,
\* or piece_length bytes when that remainder is zero, and every piece has at
\* least one block.
C14_FinalPieceCoverage ==
    LET ps == initiate_pieces(torrent)
        last == ps[Len(ps)]
        rem == torrent.total_size % torrent.piece_length
    IN  /\ SumLengths(last.blocks, Len(last.blocks))
                = (IF rem # 0 THEN rem ELSE torrent.piece_length)
        /\ \A k \in 1..Len(ps) : Len(ps[k].blocks) >= 1

\* C16: after every public call no piece of ongoing_pieces is complete (has
\* every block Retrieved).
C16_NoCompleteOngoing ==
    \A k \in 1..Len(ongoing_pieces) : ~is_complete(ongoing_pieces[k])

\* C15: next_request never crashes, whatever bitfields were registered.
C15_NextRequestNeverCrashes == ~crashed

\* C17: with peers holding {0,1}, {1,2} and {0,1,2}, the first piece that a
\* next_request of a peer holding piece 2 moves from missing to ongoing on a
\* fresh manager is piece 2.
C17_FirstPieceIsTwo ==
    [][(/\ peers = RarestPeers
        /\ Len(missing_pieces) = 3
        /\ ongoing_pieces = <<>>
        /\ lastOp'.op = "next_request"
        /\ BitGet(peers[lastOp'.peer], 2) > 0
        /\ Len(missing_pieces') < Len(missing_pieces))
       => ongoing_pieces'[Len(ongoing_pieces')].index = 2]_vars

\* C18: decoding the encoding of a well-formed value succeeds and returns the
\* value with an empty remainder.
C18_RoundTrip ==
    (codec.pc = "done" /\ codec.origin = "value") => codec.result = Ok(codec.value, <<>>)

\* C18 witness: a dictionary of two entries holding a list or a dictionary has
\* been encoded and decoded.
C18_Witness ==
    /\ codec.pc = "done"
    /\ codec.origin = "value"
    /\ codec.value.tag = "Dict"
    /\ Len(codec.value.map) = 2
    /\ codec.value.map[2].value.tag \in {"List", "Dict"}
    /\ codec.result = Ok(codec.value, <<>>)

\* C19: decoding a dictionary whose keys are not in strictly ascending order
\* returns an error.
C19_UnorderedDictRejected ==
    (codec.pc = "done" /\ codec.origin = "dict" /\ ~Ascending(codec.source))
    => ~codec.result.ok

\* A canonical numeral: 0, or an optional minus sign and digits that do not
\* start with 0.
Canonical(s) ==
    \/ s = <<ZERO>>
    \/ AllDigits(s) /\ s[1] # ZERO
    \/ Len(s) >= 2 /\ s[1] = MINUS /\ AllDigits(Tail(s)) /\ s[2] # ZERO

NumeralValue(s) == IF s[1] = MINUS THEN 0 - DigitsValue(Tail(s)) ELSE DigitsValue(s)

\* C20: decoding i<numeral>e returns the numeral's value when the numeral is
\* canonical and an error when it is not (-0, a leading zero).
C20_CanonicalIntegersOnly ==
    (codec.pc = "done" /\ codec.origin = "int")
    => IF Canonical(codec.source)
       THEN codec.result = Ok(BInt(NumeralValue(codec.source)), <<>>)
       ELSE ~codec.result.ok

\* The first 20 bytes of a handshake: 19, then "BitTorrent protocol".
HandshakeHead == <<19, 66, 105, 116, 84, 111, 114, 114, 101, 110, 116, 32,
                   112, 114, 111, 116, 111, 99, 111, 108>>

\* C21: for 20-byte info-hash and peer id, Handshake::encode yields exactly 68
\* bytes (19, "BitTorrent protocol", 8 zero bytes, info-hash, peer id) and
\* Handshake::decode of them returns the same two fields; Handshake::decode
\* fails on every buffer whose length is not 68 or whose first 20 bytes are
\* not 19 followed by "BitTorrent protocol".
C21_HandshakeRoundTrip ==
    /\ (hs.pc \in {"wire", "done"} /\ hs.origin = "fields"
            /\ Len(hs.info_hash) = 20 /\ Len(hs.peer_id) = 20)
        => /\ Len(hs.wire) = 68
           /\ SubSeq(hs.wire, 1, 20) = HandshakeHead
           /\ \A k \in 21..28 : hs.wire[k] = 0
           /\ SubSeq(hs.wire, 29, 48) = hs.info_hash
           /\ SubSeq(hs.wire, 49, 68) = hs.peer_id
    /\ (hs.pc = "done" /\ hs.origin = "fields" /\ Len(hs.info_hash) = 20 /\ Len(hs.peer_id) = 20)
        => /\ hs.result.ok
           /\ hs.result.info_hash = hs.info_hash
           /\ hs.result.peer_id = hs.peer_id
    /\ (hs.pc = "done" /\ hs.origin = "buffer"
            /\ (Len(hs.wire) # 68 \/ SubSeq(hs.wire, 1, 20) # HandshakeHead))
        => ~hs.result.ok

\* C21 witness: a handshake whose info-hash and peer id differ in every byte
\* has been encoded and decoded.
C21_Witness ==
    /\ hs.pc = "done"
    /\ hs.origin = "fields"
    /\ hs.result.ok
    /\ \A k \in 1..20 : hs.info_hash[k] # hs.peer_id[k]
    /\ hs.result.info_hash = hs.info_hash

\* The blocks of the piece a direct call started from and ended with.
Before == unit.before.blocks
After == unit.after.blocks

\* Positions of the Missing blocks before the call.
MissingBefore == {k \in 1..Len(Before) : Before[k].status = Missing}

\* Everything of the piece but the named blocks is as before the call.
SameExcept(ks) ==
    /\ unit.after.index = unit.before.index
    /\ unit.after.hash_value = unit.before.hash_value
    /\ Len(After) = Len(Before)
    /\ \A k \in (1..Len(Before)) \ ks : After[k] = Before[k]

\* C22: Piece::next_request returns the first block in block order whose
\* status is Missing, changes exactly that block's status to Pending and
\* leaves every other block unchanged; with no Missing block (also with no
\* blocks at all) it returns None and changes nothing.
C22_PieceNextRequest ==
    unit.op = "next_request" =>
        IF MissingBefore = {}
        THEN unit.ret = NoBlock /\ unit.after = unit.before
        ELSE LET i == CHOOSE k \in MissingBefore : \A j \in MissingBefore : k <= j
             IN  /\ unit.ret # NoBlock
                 /\ unit.ret.piece = Before[i].piece
                 /\ unit.ret.offset = Before[i].offset
                 /\ unit.ret.length = Before[i].length
                 /\ SameExcept({i})
                 /\ After[i] = [Before[i] EXCEPT !.status = Pending]

\* C22 witness: next_request on a piece whose first block is Retrieved and
\* whose second and third blocks are Missing has returned the second block.
C22_Witness ==
    /\ unit.op = "next_request"
    /\ Len(Before) = 3
    /\ Before[1].status = Retrieved
    /\ Before[2].status = Missing
    /\ Before[3].status = Missing
    /\ unit.ret # NoBlock
    /\ unit.ret.offset = REQUEST_SIZE
    /\ After[3].status = Missing

\* Positions of the blocks at the offset named in the call.
AtCallOffset == {k \in 1..Len(Before) : Before[k].offset = unit.offset}

\* C23: Piece::block_received(offset, data) sets exactly the block at that
\* offset to Retrieved with the given data and leaves status and data of every
\* other block unchanged; when no block has that offset, no block changes.
C23_PieceBlockReceived ==
    unit.op = "block_received" =>
        /\ SameExcept(AtCallOffset)
        /\ \A k \in AtCallOffset :
            After[k] = [Before[k] EXCEPT !.status = Retrieved, !.data = unit.data]

\* C23 witness: a delivery for the second of three blocks, which was Pending
\* and held other bytes, while the first block is Missing and the third Pending.
C23_Witness ==
    /\ unit.op = "block_received"
    /\ Len(Before) = 3
    /\ unit.offset = REQUEST_SIZE
    /\ Before[2].status = Pending
    /\ Before[2].data # NoData
    /\ Before[2].data # unit.data
    /\ After[2].data = unit.data
    /\ After[1].status = Missing
    /\ After[3].status = Pending

\* C23 witness of the other case: a delivery for an offset no block has.
C23_WitnessNoBlock ==
    /\ unit.op = "block_received"
    /\ Len(Before) > 0
    /\ AtCallOffset = {}
    /\ unit.after = unit.before

\* The manager's own copy of the block just returned is Pending.
ReturnedIsPending ==
    \E k \in 1..Len(ongoing_pieces) :
        /\ ongoing_pieces[k].index = ret.piece
        /\ \E b \in 1..Len(ongoing_pieces[k].blocks) :
            /\ ongoing_pieces[k].blocks[b].offset = ret.offset
            /\ ongoing_pieces[k].blocks[b].status = Pending

\* pending_blocks holds an entry for the block just returned, stamped now.
ReturnedIsStamped ==
    \E k \in 1..Len(pending_blocks) :
        /\ Key(pending_blocks[k].block) = Key(ret)
        /\ pending_blocks[k].added = now

\* C24: whenever next_request returns a block that is not a re-issued expired
\* request (so it comes from tier 2, or from tier 3 after moving a piece from
\* missing to ongoing), the block is Pending in the manager's own copy of the
\* piece in ongoing_pieces and pending_blocks has an entry for its
\* (piece, offset) stamped with the current time.
C24_ReturnedBlockRecorded ==
    [][(/\ lastOp'.op = "next_request"
        /\ ret' # NoBlock
        /\ expired_requests(lastOp'.peer).block = NoBlock)
       => (ReturnedIsPending /\ ReturnedIsStamped)']_vars

\* Every piece the manager holds, in any of its three collections.
HeldPieces == missing_pieces \o ongoing_pieces \o have_pieces

\* C25: in every reachable state of the piece manager a block holds payload
\* bytes if and only if its status is Retrieved; in particular after a
\* hash-mismatch reset every block of the piece is Missing and holds no data.
C25_DataIffRetrieved ==
    \A k \in 1..Len(HeldPieces) : \A b \in 1..Len(HeldPieces[k].blocks) :
        HeldPieces[k].blocks[b].data # NoData <=> HeldPieces[k].blocks[b].status = Retrieved

\* The number of 20-byte digests in torrent.pieces.
DigestCount == Len(torrent.pieces) \div 20

\* The i-th digest (0-based) of torrent.pieces, as the hex text that
\* is_hash_matching compares a piece's hash_value with.
ExpectedHash(i) == HexEncode(SubSeq(torrent.pieces, 20 * i + 1, 20 * i + 20))

\* C26: a PieceManager built from a Torrent whose `pieces` string has length
\* 20*N holds exactly N pieces, piece i expecting as hash the bytes
\* [20i, 20i+20) of that string, and complete() is true exactly when all N
\* pieces are in have_pieces.
C26_OnePiecePerDigest ==
    Len(torrent.pieces) % 20 = 0 =>
        /\ Len(HeldPieces) = DigestCount
        /\ \A k \in 1..Len(HeldPieces) :
            /\ HeldPieces[k].index \in 0..(DigestCount - 1)
            /\ StrEq(HeldPieces[k].hash_value, ExpectedHash(HeldPieces[k].index))
        /\ complete <=> Len(have_pieces) = DigestCount

====
